---- MODULE Spec2Model ----
(***************************************************************************)
(* A model of the two EIP-1193 provider adapters of viem-inpage:           *)
(* Eip1193Provider (client-backed, with optional custom handlers) and      *)
(* InpageProvider (portal-backed, with push events).                       *)
(*                                                                         *)
(* JavaScript strings that the code parses or formats are sequences of     *)
(* one-character strings; addresses, method names and event names are      *)
(* atomic strings. A JavaScript value of unknown type is a record          *)
(* [t |-> tag, v |-> sequence].                                            *)
(***************************************************************************)
EXTENDS Integers, Sequences, FiniteSets, TLC

\* --------------------------------------------------------------- bounds
\* The number of outbound calls (request, enable, send, sendAsync) of a run.
MaxCalls == 2
\* The number of inbound push events of a run.
MaxPushes == 2
\* The number of listener registrations (on, addListener, once) of a run.
MaxRegs == 2
\* The number of caller-invoked emits of a run.
MaxEmits == 2

\* ------------------------------------------------------ JavaScript values
Undefined == [t |-> "undef", v |-> <<>>]
Null == [t |-> "null", v |-> <<>>]
Str(chars) == [t |-> "str", v |-> chars]
Arr(elems) == [t |-> "arr", v |-> elems]

IsString(x) == x.t = "str"
IsArray(x) == x.t = "arr"

\* Array element 0, undefined when the array is empty.
First(a) == IF Len(a) > 0 THEN a[1] ELSE "undefined"

\* -------------------------------------------- number <-> string conversion
Digits == <<"0", "1", "2", "3", "4", "5", "6", "7", "8", "9",
            "a", "b", "c", "d", "e", "f">>

RECURSIVE RadixDigits(_, _)
RadixDigits(n, radix) ==
    IF n < radix THEN <<Digits[n + 1]>>
    ELSE RadixDigits(n \div radix, radix) \o <<Digits[(n % radix) + 1]>>

\* Number.prototype.toString(radix) of an integer; NaN is [nan |-> TRUE].
NumberToString(num, radix) ==
    IF num.nan THEN <<"N", "a", "N">>
    ELSE IF num.n < 0 THEN <<"-">> \o RadixDigits(-num.n, radix)
    ELSE RadixDigits(num.n, radix)

Num(n) == [nan |-> FALSE, n |-> n]
NaN == [nan |-> TRUE, n |-> 0]

\* The value of one character as a digit of the radix, -1 when it is none.
DigitValue(c, radix) ==
    LET lower == IF c = "A" THEN "a" ELSE IF c = "B" THEN "b"
                 ELSE IF c = "C" THEN "c" ELSE IF c = "D" THEN "d"
                 ELSE IF c = "E" THEN "e" ELSE IF c = "F" THEN "f" ELSE c
        hits == {i \in 1..radix : Digits[i] = lower}
    IN  IF hits = {} THEN -1 ELSE (CHOOSE i \in hits : TRUE) - 1

RECURSIVE SkipWhite(_)
SkipWhite(s) == IF Len(s) > 0 /\ s[1] = " " THEN SkipWhite(Tail(s)) ELSE s

RECURSIVE DigitRun(_, _, _, _)
\* The longest prefix of s made of digits of the radix: [seen, n].
DigitRun(s, radix, seen, acc) ==
    IF Len(s) = 0 \/ DigitValue(s[1], radix) < 0 THEN [seen |-> seen, n |-> acc]
    ELSE DigitRun(Tail(s), radix, TRUE, acc * radix + DigitValue(s[1], radix))

\* parseInt(s, 16): leading white space, a sign, a 0x or 0X prefix, then the
\* longest run of hexadecimal digits; NaN when that run is empty.
ParseInt16(s) ==
    LET t == SkipWhite(s)
        neg == Len(t) > 0 /\ t[1] = "-"
        u == IF Len(t) > 0 /\ t[1] \in {"-", "+"} THEN Tail(t) ELSE t
        w == IF Len(u) >= 2 /\ u[1] = "0" /\ u[2] \in {"x", "X"}
             THEN Tail(Tail(u)) ELSE u
        run == DigitRun(w, 16, FALSE, 0)
    IN  IF ~run.seen THEN NaN
        ELSE Num(IF neg THEN -run.n ELSE run.n)

\* parseInt(h, 16).toString()
HexToDecimal(h) == NumberToString(ParseInt16(h), 10)

\* ------------------------------------------------------- listener registry
\* A callback reference: a caller's listener has w = 0; the wrapper that the
\* n-th call of once(event, listener) creates has w = n and inner = the
\* listener it wraps.
Listener(name) == [name |-> name, w |-> 0]
Wrapper(name, n) == [name |-> name, w |-> n]
\* The empty marker that Set.prototype.delete leaves in the Set's entry list.
Tomb == [name |-> "", w |-> -1]

\* What the callers' listeners do when they are invoked:
\*   A     returns normally;
\*   R     calls emit(event, ...args) again, on its first invocation only;
\*   T     throws;
\*   N     calls on(event, A) for the event it is invoked for;
\*   D     calls off(event, A) for the event it is invoked for.
ListenerNames == {"A", "R", "T", "N", "D"}

PushEvents == {"accountsChanged", "chainChanged", "connect", "disconnect"}
\* Event names are arbitrary strings: the empty string is one.
Events == PushEvents \cup {""}

\* JavaScript truthiness of an optional string argument.
Truthy(optString) == optString.t = "name" /\ optString.v # ""
OptEvent(ev) == [t |-> "name", v |-> ev]

\* The registry while one synchronous operation runs: map is the Map from
\* event to Set object (0: no entry), heap the entry lists of the Set objects.
Live(entries) == {entries[i] : i \in 1..Len(entries)} \ {Tomb}

RECURSIVE Compact(_)
Compact(entries) ==
    IF entries = <<>> THEN <<>>
    ELSE IF Head(entries) = Tomb THEN Compact(Tail(entries))
    ELSE <<Head(entries)>> \o Compact(Tail(entries))

StOn(st, ev, l) ==
    LET st1 == IF st.map[ev] = 0
               THEN [st EXCEPT !.heap = Append(st.heap, <<>>),
                               !.map[ev] = Len(st.heap) + 1]
               ELSE st
        sid == st1.map[ev]
    IN  IF l \in Live(st1.heap[sid]) THEN st1
        ELSE [st1 EXCEPT !.heap[sid] = Append(st1.heap[sid], l)]

StOff(st, ev, l) ==
    LET sid == st.map[ev]
    IN  IF sid = 0 THEN st
        ELSE [st EXCEPT !.heap[sid] =
                 [i \in 1..Len(st.heap[sid]) |->
                     IF st.heap[sid][i] = l THEN Tomb ELSE st.heap[sid][i]]]

StRemoveAllListeners(st, optEvent) ==
    IF Truthy(optEvent) THEN [st EXCEPT !.map[optEvent.v] = 0]
    ELSE [st EXCEPT !.map = [e \in Events |-> 0]]

RECURSIVE StEmit(_, _, _)
RECURSIVE ForEach(_, _, _, _, _)
RECURSIVE Invoke(_, _, _, _)

\* listener(...args): the wrapper of once runs the listener, then off. The
\* log keeps, with each invocation, the provider state the listener can read.
Invoke(st, l, ev, args) ==
    LET first == st.calls[l.name] = 0
        st1 == [st EXCEPT !.calls[l.name] = @ + 1,
                          !.log = Append(@, [name |-> l.name, ev |-> ev, args |-> args,
                                             view |-> st.view])]
        st2 == IF l.name = "T" THEN [st1 EXCEPT !.thrown = TRUE]
               ELSE IF l.name = "R" /\ first THEN StEmit(st1, ev, args)
               ELSE IF l.name = "N" THEN StOn(st1, ev, Listener("A"))
               ELSE IF l.name = "D" THEN StOff(st1, ev, Listener("A"))
               ELSE st1
    IN  IF l.w = 0 \/ st2.thrown THEN st2 ELSE StOff(st2, ev, l)

\* A slip: the exception of a listener is caught and the delivery goes on.
RECURSIVE ForEach_Continue(_, _, _, _, _)
ForEach_Continue(st, sid, i, ev, args) ==
    IF i > Len(st.heap[sid]) THEN st
    ELSE IF st.heap[sid][i] = Tomb THEN ForEach_Continue(st, sid, i + 1, ev, args)
    ELSE ForEach_Continue(Invoke(st, st.heap[sid][i], ev, args), sid, i + 1, ev, args)

\* Set.prototype.forEach over the Set object sid, from entry i on: entries
\* deleted before they are reached are skipped, entries appended meanwhile
\* are visited; an exception ends the iteration.
ForEach(st, sid, i, ev, args) ==
    IF st.thrown \/ i > Len(st.heap[sid]) THEN st
    ELSE IF st.heap[sid][i] = Tomb THEN ForEach(st, sid, i + 1, ev, args)
    ELSE ForEach(Invoke(st, st.heap[sid][i], ev, args), sid, i + 1, ev, args)

StEmit(st, ev, args) ==
    LET st1 == [st EXCEPT !.emits = Append(@, [ev |-> ev, args |-> args])]
    IN  IF st1.map[ev] = 0 THEN st1 ELSE ForEach(st1, st1.map[ev], 1, ev, args)

\* ------------------------------------------------------------------ state
VARIABLES
    variant,          \* "client": Eip1193Provider, "portal": InpageProvider
    clientChain,      \* client.chain: [has, id]
    clientAccount,    \* client.account: [has, address]
    customHandlers,   \* the methods options.custom has a handler for
    chainId,          \* Undefined or Str(...)
    connected,
    _isConnected,
    networkVersion,   \* a string, as a sequence of characters
    selectedAddress,  \* "undefined" or an address
    _listeners,       \* event -> the Set's listeners, in insertion order
    wrappers,         \* the number of wrappers once has created
    pending,          \* call number -> the outbound call in flight, or NoCall
    calls,            \* listener -> how many times it has been invoked
    last,             \* what the last completed operation did and returned
    nCalls, nPushes, nRegs, nEmits

vars == <<variant, clientChain, clientAccount, customHandlers, chainId, connected,
          _isConnected, networkVersion, selectedAddress, _listeners, wrappers,
          pending, calls, last, nCalls, nPushes, nRegs, nEmits>>

config == <<variant, clientChain, clientAccount, customHandlers>>
provider == <<chainId, connected, _isConnected, networkVersion, selectedAddress>>
registry == <<_listeners, wrappers, calls>>
counters == <<nCalls, nPushes, nRegs, nEmits>>

\* isConnected()
IsConnected == _isConnected

\* The readable provider state, as one record.
PState == [chainId |-> chainId, connected |-> connected, isConnected |-> _isConnected,
           networkVersion |-> networkVersion, selectedAddress |-> selectedAddress]

NoCall == [api |-> "none"]

\* The record of an operation that has not happened. An operation records
\* what it was called with and what it did and returned, never the state
\* it started from.
NoLast ==
    [op |-> "none", api |-> "", method |-> "", params |-> Undefined, route |-> "",
     handlerCalls |-> <<>>, collabCalls |-> <<>>,
     ok |-> TRUE, value |-> Undefined, source |-> Undefined,
     payloadId |-> [has |-> FALSE, n |-> 0], cbKind |-> "", cb |-> <<>>, promise |-> "",
     reason |-> Undefined, result |-> Undefined, slot |-> 0,
     ev |-> "", name |-> "", optEvent |-> Undefined, args |-> <<>>,
     emits |-> <<>>, log |-> <<>>, thrown |-> FALSE]

\* ------------------------------------------- the registry between operations
EventSeq == <<"accountsChanged", "chainChanged", "connect", "disconnect", "">>
EventIndex(ev) == CHOOSE i \in 1..Len(EventSeq) : EventSeq[i] = ev

\* The registry as an operation finds it: an event without listeners has no
\* Set that anything still iterates, so it is the same as an absent entry.
Load ==
    [map |-> [e \in Events |-> IF _listeners[e] = <<>> THEN 0 ELSE EventIndex(e)],
     heap |-> [i \in 1..Len(EventSeq) |-> _listeners[EventSeq[i]]],
     calls |-> calls, log |-> <<>>, emits |-> <<>>, thrown |-> FALSE, view |-> PState]

Store(st) ==
    [e \in Events |-> IF st.map[e] = 0 THEN <<>> ELSE Compact(st.heap[st.map[e]])]

\* listenerCount(event?)
RECURSIVE SumSizes(_, _)
SumSizes(reg, evs) ==
    IF evs = {} THEN 0
    ELSE LET e == CHOOSE x \in evs : TRUE
         IN  Len(reg[e]) + SumSizes(reg, evs \ {e})

ListenerCount(reg, optEvent) ==
    IF Truthy(optEvent) THEN Len(reg[optEvent.v]) ELSE SumSizes(reg, Events)

\* listeners(event)
Listeners(reg, ev) == reg[ev]

\* ---------------------------------------------------- event-emitter surface
On(ev, name) ==
    /\ nRegs < MaxRegs
    /\ _listeners' = Store(StOn(Load, ev, Listener(name)))
    /\ nRegs' = nRegs + 1
    /\ last' = [NoLast EXCEPT !.op = "on"]
    /\ UNCHANGED <<config, provider, pending, wrappers, calls, nCalls, nPushes, nEmits>>

AddListener(ev, name) == On(ev, name)

Off(ev, name) ==
    /\ _listeners' = Store(StOff(Load, ev, Listener(name)))
    /\ last' = [NoLast EXCEPT !.op = "off", !.ev = ev, !.name = name]
    /\ UNCHANGED <<config, provider, pending, wrappers, calls, counters>>

RemoveListener(ev, name) == Off(ev, name)

Once(ev, name) ==
    /\ nRegs < MaxRegs
    /\ wrappers' = wrappers + 1
    /\ _listeners' = Store(StOn(Load, ev, Wrapper(name, wrappers + 1)))
    /\ nRegs' = nRegs + 1
    /\ last' = [NoLast EXCEPT !.op = "once"]
    /\ UNCHANGED <<config, provider, pending, calls, nCalls, nPushes, nEmits>>

Emit(ev, args) ==
    /\ nEmits < MaxEmits
    /\ LET st == StEmit(Load, ev, args)
       IN  /\ _listeners' = Store(st)
           /\ calls' = st.calls
           /\ last' = [NoLast EXCEPT !.op = "emit", !.ev = ev, !.args = args,
                                     !.emits = st.emits, !.log = st.log,
                                     !.thrown = st.thrown]
    /\ nEmits' = nEmits + 1
    /\ UNCHANGED <<config, provider, pending, wrappers, nCalls, nPushes, nRegs>>

RemoveAllListeners(optEvent) ==
    /\ _listeners' = Store(StRemoveAllListeners(Load, optEvent))
    /\ last' = [NoLast EXCEPT !.op = "removeAllListeners", !.optEvent = optEvent]
    /\ UNCHANGED <<config, provider, pending, wrappers, calls, counters>>

\* The calls that only read: listenerCount(event?), listeners(event) and
\* isConnected(), with what they return.
CallListenerCount(optEvent) ==
    /\ last' = [NoLast EXCEPT !.op = "listenerCount", !.optEvent = optEvent,
                              !.value = [t |-> "num",
                                         v |-> <<ListenerCount(_listeners, optEvent)>>]]
    /\ UNCHANGED <<config, provider, registry, pending, counters>>

CallListeners(ev) ==
    /\ last' = [NoLast EXCEPT !.op = "listeners", !.ev = ev,
                              !.value = Arr(Listeners(_listeners, ev))]
    /\ UNCHANGED <<config, provider, registry, pending, counters>>

CallIsConnected ==
    /\ last' = [NoLast EXCEPT !.op = "isConnected",
                              !.value = [t |-> "bool", v |-> <<IsConnected>>]]
    /\ UNCHANGED <<config, provider, registry, pending, counters>>

\* ------------------------------------------------------------- the inputs
StandardMethods == {"eth_chainId", "eth_accounts", "eth_coinbase",
                    "eth_requestAccounts", "net_version"}
Methods == StandardMethods \cup {"eth_blockNumber"}
ParamChoices == {Undefined, Arr(<<"p">>)}
Addresses == {"0xabc", "0xdef"}
NoChain == [has |-> FALSE, id |-> 0]
Chain(id) == [has |-> TRUE, id |-> id]
ChainChoices == {NoChain, Chain(0), Chain(26)}
NoAccount == [has |-> FALSE, address |-> "undefined"]
Account(a) == [has |-> TRUE, address |-> a]
AccountChoices == {NoAccount, Account("0xabc")}
CustomChoices == {{}, {"eth_requestAccounts", "eth_chainId"}, Methods}

\* An address as a JavaScript string value.
AddrStr(a) == [t |-> "str", v |-> <<a>>]
\* An Error object with the given message.
Err(msg) == [t |-> "err", v |-> <<msg>>]

AccountLists == {<<>>, <<"0xabc">>, <<"0xdef", "0xabc">>}
\* A collaborator or a custom handler settles a call with an outcome
\* [ok, value]: ok with the value it resolves with, or not ok with the value
\* it rejects with. Settled stands for a call that request() answered itself.
Settled == [ok |-> TRUE, value |-> Undefined]

\* --------------------------------------------------------------- request
SetProvider(ps) ==
    /\ chainId' = ps.chainId
    /\ connected' = ps.connected
    /\ _isConnected' = ps.isConnected
    /\ networkVersion' = ps.networkVersion
    /\ selectedAddress' = ps.selectedAddress

CollabCall(channel, method, params) ==
    [channel |-> channel, method |-> method, params |-> params]

\* What request() of Eip1193Provider does before it returns its promise:
\* [route, handlerCalls, collabCalls, settled, ok, value, state].
Answered(ps) ==
    [route |-> "local", handlerCalls |-> <<>>, collabCalls |-> <<>>,
     settled |-> TRUE, ok |-> TRUE, value |-> Undefined, state |-> ps]

\* A slip: eth_accounts stores the account as eth_requestAccounts does.
Eip1193Standard_AccountsConnects(method, p, ps) ==
    IF method = "eth_accounts" /\ clientAccount.has
    THEN [Answered(ps) EXCEPT
             !.value = Arr(<<clientAccount.address>>),
             !.state = [ps EXCEPT !.isConnected = TRUE, !.connected = TRUE,
                                  !.selectedAddress = clientAccount.address]]
    ELSE [Answered(ps) EXCEPT !.route = "forward", !.settled = FALSE,
                              !.collabCalls = <<CollabCall("", method, p)>>]

\* The switch over the standard Ethereum methods; p is params, [] by default.
Eip1193Standard(method, p, ps) ==
    IF method = "eth_chainId"
    THEN [Answered(ps) EXCEPT !.value =
             IF clientChain.has /\ clientChain.id # 0
             THEN Str(<<"0", "x">> \o NumberToString(Num(clientChain.id), 16))
             ELSE Str(<<"0", "x", "1">>)]
    ELSE IF method = "eth_accounts"
    THEN [Answered(ps) EXCEPT !.value = IF clientAccount.has
                                        THEN Arr(<<clientAccount.address>>)
                                        ELSE Arr(<<>>)]
    ELSE IF method = "eth_coinbase"
    THEN [Answered(ps) EXCEPT !.value = IF clientAccount.has
                                        THEN AddrStr(clientAccount.address) ELSE Null]
    ELSE IF method = "eth_requestAccounts"
    THEN IF clientAccount.has
         THEN [Answered(ps) EXCEPT
                  !.value = Arr(<<clientAccount.address>>),
                  !.state = [ps EXCEPT !.isConnected = TRUE, !.connected = TRUE,
                                       !.selectedAddress = clientAccount.address]]
         ELSE [Answered(ps) EXCEPT !.value = Arr(<<>>)]
    ELSE IF method = "net_version"
    THEN [Answered(ps) EXCEPT !.value =
             IF clientChain.has THEN Str(NumberToString(Num(clientChain.id), 10))
             ELSE Str(<<"1">>)]
    ELSE [Answered(ps) EXCEPT !.route = "forward", !.settled = FALSE,
                              !.collabCalls = <<CollabCall("", method, p)>>]

\* A slip: the switch is consulted before the custom handlers.
Eip1193Request_SwitchFirst(method, params, ps) ==
    LET p == IF params = Undefined THEN Arr(<<>>) ELSE params
    IN  IF method \notin StandardMethods /\ method \in customHandlers
        THEN [Answered(ps) EXCEPT !.route = "custom", !.settled = FALSE,
                                  !.handlerCalls = <<[method |-> method, arg |-> p]>>]
        ELSE Eip1193Standard(method, p, ps)

Eip1193Request(method, params, ps) ==
    LET p == IF params = Undefined THEN Arr(<<>>) ELSE params
    IN  IF method \in customHandlers
        THEN [Answered(ps) EXCEPT !.route = "custom", !.settled = FALSE,
                                  !.handlerCalls = <<[method |-> method, arg |-> p]>>]
        ELSE Eip1193Standard(method, p, ps)

\* A slip: the portal call carries the method alone.
InpageRequest_NoParams(method, params, ps) ==
    [route |-> "portal", handlerCalls |-> <<>>,
     collabCalls |-> <<CollabCall("eth_request", method, Undefined)>>,
     settled |-> FALSE, ok |-> TRUE, value |-> Undefined, state |-> ps]

\* What request() of InpageProvider does before it awaits the portal's reply.
InpageRequest(method, params, ps) ==
    [route |-> "portal", handlerCalls |-> <<>>,
     collabCalls |-> <<CollabCall("eth_request", method, params)>>,
     settled |-> FALSE, ok |-> TRUE, value |-> Undefined, state |-> ps]

\* A slip: the address is stored, the connection flag is not set.
InpageUpdate_AddressOnly(method, result, ps) ==
    IF method = "eth_requestAccounts" /\ IsArray(result)
    THEN [ps EXCEPT !.selectedAddress = First(result.v), !.connected = TRUE]
    ELSE IF method = "eth_chainId" /\ IsString(result)
    THEN [ps EXCEPT !.chainId = result, !.networkVersion = HexToDecimal(result.v)]
    ELSE ps

\* A slip: a chain id that is already known is kept.
InpageUpdate_KeepFirst(method, result, ps) ==
    IF method = "eth_requestAccounts" /\ IsArray(result)
    THEN [ps EXCEPT !.selectedAddress = First(result.v),
                    !.isConnected = TRUE, !.connected = TRUE]
    ELSE IF method = "eth_chainId" /\ IsString(result) /\ ps.chainId = Undefined
    THEN [ps EXCEPT !.chainId = result, !.networkVersion = HexToDecimal(result.v)]
    ELSE ps

\* The state update of InpageProvider.request once the reply has arrived.
InpageUpdate(method, result, ps) ==
    IF method = "eth_requestAccounts" /\ IsArray(result)
    THEN [ps EXCEPT !.selectedAddress = First(result.v),
                    !.isConnected = TRUE, !.connected = TRUE]
    ELSE IF method = "eth_chainId" /\ IsString(result)
    THEN [ps EXCEPT !.chainId = result, !.networkVersion = HexToDecimal(result.v)]
    ELSE ps

CallRecord(api, method, params, r) ==
    last' = [NoLast EXCEPT !.op = "call", !.api = api, !.method = method,
                           !.params = params, !.route = r.route]

\* The call of request(), directly or through enable, send or sendAsync.
Call(api, method, params, payloadId, cbKind) ==
    /\ nCalls < MaxCalls
    /\ LET r == IF variant = "client" THEN Eip1193Request(method, params, PState)
                ELSE InpageRequest(method, params, PState)
       IN  /\ SetProvider(r.state)
           /\ CallRecord(api, method, params, r)
           /\ pending' = [pending EXCEPT ![nCalls + 1] =
                  [api |-> api, method |-> method, params |-> params,
                   route |-> r.route, handlerCalls |-> r.handlerCalls,
                   collabCalls |-> r.collabCalls,
                   settled |-> r.settled, ok |-> r.ok, value |-> r.value,
                   payloadId |-> payloadId, cbKind |-> cbKind]]
    /\ nCalls' = nCalls + 1
    /\ UNCHANGED <<config, registry, nPushes, nRegs, nEmits>>

NoId == [has |-> FALSE, n |-> 0]

\* The number of calls in flight.
InFlight == Cardinality({s \in 1..MaxCalls : pending[s].api # "none"})

Request(method, params) == Call("request", method, params, NoId, "")

Enable == Call("enable", "eth_requestAccounts", Undefined, NoId, "")

\* ------------------------------------------------------- send, sendAsync
\* A slip: payload.id || 1, which replaces the id 0.
ResponseId_Or(payloadId) == IF payloadId.has /\ payloadId.n # 0 THEN payloadId.n ELSE 1

\* payload.id ?? 1
ResponseId(payloadId) == IF payloadId.has THEN payloadId.n ELSE 1

NoError == [code |-> 0, message |-> Undefined]

OkResponse(payloadId, result) ==
    [fields |-> {"id", "jsonrpc", "result"}, id |-> ResponseId(payloadId),
     jsonrpc |-> "2.0", result |-> result, error |-> NoError]

ErrResponse(payloadId, message) ==
    [fields |-> {"id", "jsonrpc", "error"}, id |-> ResponseId(payloadId),
     jsonrpc |-> "2.0", result |-> Undefined,
     error |-> [code |-> -32000, message |-> message]]

Nullish(x) == x.t \in {"null", "undef"}
\* error.message of a value that is not null or undefined.
Message(e) == IF e.t = "err" THEN Str(e.v) ELSE Undefined

\* What the caller's callback does: "returns", "throws" (every time), or
\* "throwsOnSuccess" (when its first argument is null).
CallbackKinds == {"returns", "throws", "throwsOnSuccess"}
CallbackError == Err("callback")
CallbackThrows(cbKind, errorArg) ==
    cbKind = "throws" \/ (cbKind = "throwsOnSuccess" /\ errorArg = Null)

\* sendAsync after the awaited request has settled with (ok, value): the
\* callback invocations in order, and how sendAsync's own promise settles.
SendAsyncSettle(payloadId, cbKind, ok, value) ==
    LET tryCb == IF ok THEN <<[error |-> Null, response |-> OkResponse(payloadId, value)]>>
                 ELSE <<>>
        caught == ~ok \/ CallbackThrows(cbKind, Null)
        error == IF ok THEN CallbackError ELSE value
    IN  IF ~caught
        THEN [cb |-> tryCb, promise |-> "fulfilled", reason |-> Undefined,
              result |-> Undefined]
        ELSE IF Nullish(error)
        THEN [cb |-> tryCb, promise |-> "rejected", reason |-> Err("TypeError"),
              result |-> Undefined]
        ELSE LET cb2 == Append(tryCb, [error |-> error,
                                      response |-> ErrResponse(payloadId, Message(error))])
             IN  IF CallbackThrows(cbKind, error)
                 THEN [cb |-> cb2, promise |-> "rejected", reason |-> CallbackError,
                       result |-> Undefined]
                 ELSE [cb |-> cb2, promise |-> "fulfilled", reason |-> Undefined,
                       result |-> Undefined]

PayloadIds == {NoId, [has |-> TRUE, n |-> 0], [has |-> TRUE, n |-> 5]}

SendAsync(method, params, payloadId, cbKind) ==
    Call("sendAsync", method, params, payloadId, cbKind)

\* send(method, params), send(payload, callback) and send(payload).
Send(form, method, params, payloadId, cbKind) ==
    IF form = "callback" THEN Call("send", method, params, payloadId, cbKind)
    ELSE Call("send", method, params, NoId, "")

\* A slip: a rejection is wrapped in a new error.
RequestSettle_Wrapped(ok, value) ==
    [cb |-> <<>>, promise |-> IF ok THEN "fulfilled" ELSE "rejected",
     reason |-> IF ok THEN Undefined ELSE Err("wrapped"),
     result |-> IF ok THEN value ELSE Undefined]

\* How the promise of request() (and of enable and send, which await it and
\* return its result) settles once the awaited call has settled with
\* (ok, value): nothing catches a rejection.
RequestSettle(ok, value) ==
    [cb |-> <<>>, promise |-> IF ok THEN "fulfilled" ELSE "rejected",
     reason |-> IF ok THEN Undefined ELSE value,
     result |-> IF ok THEN value ELSE Undefined]

\* The collaborator (or the custom handler) settles the call in flight, and
\* the code that awaits it runs: the state update of InpageProvider.request,
\* then what enable, send or sendAsync do with the outcome.
Resolve(slot, outcome) ==
    /\ pending[slot].api # "none"
    /\ LET e == pending[slot]
           out == IF e.settled THEN [ok |-> e.ok, value |-> e.value] ELSE outcome
           ps == IF e.route = "portal" /\ out.ok
                 THEN InpageUpdate(e.method, out.value, PState) ELSE PState
           sa == IF e.cbKind # ""
                 THEN SendAsyncSettle(e.payloadId, e.cbKind, out.ok, out.value)
                 ELSE RequestSettle(out.ok, out.value)
       IN  /\ outcome = Settled <=> e.settled
           /\ SetProvider(ps)
           /\ last' = [NoLast EXCEPT
                  !.op = "resolve", !.slot = slot, !.api = e.api, !.method = e.method,
                  !.params = e.params, !.route = e.route,
                  !.handlerCalls = e.handlerCalls, !.collabCalls = e.collabCalls,
                  !.ok = out.ok, !.value = out.value,
                  !.source = IF e.settled THEN Undefined ELSE outcome.value,
                  !.payloadId = e.payloadId, !.cbKind = e.cbKind,
                  !.cb = sa.cb, !.promise = sa.promise, !.reason = sa.reason,
                  !.result = sa.result]
    /\ pending' = [pending EXCEPT ![slot] = NoCall]
    /\ UNCHANGED <<config, registry, counters>>

\* ------------------------------------------ push events (InpageProvider)
\* A subscription handler, called by the portal with data: the state update,
\* then the emissions, which find the updated state; an exception of a
\* listener ends the handler.
Updated(ps) == [Load EXCEPT !.view = ps]

Push(ev, data, ps, st) ==
    /\ variant = "portal"
    /\ nPushes < MaxPushes
    /\ SetProvider(ps)
    /\ _listeners' = Store(st)
    /\ calls' = st.calls
    /\ last' = [NoLast EXCEPT !.op = "push", !.ev = ev, !.args = data,
                              !.emits = st.emits,
                              !.log = st.log, !.thrown = st.thrown]
    /\ nPushes' = nPushes + 1
    /\ UNCHANGED <<config, wrappers, pending, nCalls, nRegs, nEmits>>

\* A slip: the listeners run before the state is updated.
PushAccountsChanged_EmitFirst(accounts) ==
    LET ps == [PState EXCEPT !.selectedAddress = First(accounts),
                             !.isConnected = Len(accounts) > 0]
    IN  Push("accountsChanged", <<Arr(accounts)>>, ps,
             StEmit(Load, "accountsChanged", <<Arr(accounts)>>))

PushAccountsChanged(accounts) ==
    LET ps == [PState EXCEPT !.selectedAddress = First(accounts),
                             !.isConnected = Len(accounts) > 0]
    IN  Push("accountsChanged", <<Arr(accounts)>>, ps,
             StEmit(Updated(ps), "accountsChanged", <<Arr(accounts)>>))

\* A slip: the network version is not derived.
PushChainChanged_ChainIdOnly(data) ==
    LET ps == [PState EXCEPT !.chainId = Str(data)]
    IN  Push("chainChanged", <<Str(data)>>, ps,
             StEmit(Updated(ps), "chainChanged", <<Str(data)>>))

PushChainChanged(data) ==
    LET ps == [PState EXCEPT !.chainId = Str(data),
                             !.networkVersion = HexToDecimal(data)]
    IN  Push("chainChanged", <<Str(data)>>, ps,
             StEmit(Updated(ps), "chainChanged", <<Str(data)>>))

\* A slip: the disconnect handler clears the flag and keeps the address.
PushDisconnect_KeepsAddress ==
    LET ps == [PState EXCEPT !.isConnected = FALSE]
        st1 == StEmit(Updated(ps), "accountsChanged", <<Arr(<<>>)>>)
    IN  Push("disconnect", <<>>, ps,
             IF st1.thrown THEN st1 ELSE StEmit(st1, "disconnect", <<Arr(<<>>)>>))

PushDisconnect ==
    LET ps == [PState EXCEPT !.selectedAddress = "undefined", !.isConnected = FALSE]
        st1 == StEmit(Updated(ps), "accountsChanged", <<Arr(<<>>)>>)
    IN  Push("disconnect", <<>>, ps,
             IF st1.thrown THEN st1 ELSE StEmit(st1, "disconnect", <<Arr(<<>>)>>))

ConnectInfo == [t |-> "info", v |-> <<"0", "x", "1">>]

PushConnect(info) ==
    LET ps == [PState EXCEPT !.isConnected = TRUE]
    IN  Push("connect", <<info>>, ps, StEmit(Updated(ps), "connect", <<info>>))

\* ---------------------------------------------------------- specifications
InitProvider ==
    /\ chainId = Undefined
    /\ connected = FALSE
    /\ _isConnected = FALSE
    /\ networkVersion = <<"1">>
    /\ selectedAddress = "undefined"
    /\ _listeners = [e \in Events |-> <<>>]
    /\ wrappers = 0
    /\ pending = [s \in 1..MaxCalls |-> NoCall]
    /\ calls = [n \in ListenerNames |-> 0]
    /\ last = NoLast
    /\ nCalls = 0 /\ nPushes = 0 /\ nRegs = 0 /\ nEmits = 0

InitPortal ==
    /\ variant = "portal"
    /\ clientChain = NoChain
    /\ clientAccount = NoAccount
    /\ customHandlers = {}

Init ==
    /\ \/ /\ variant = "client"
          /\ clientChain \in ChainChoices
          /\ clientAccount \in AccountChoices
          /\ customHandlers \in CustomChoices
       \/ InitPortal
    /\ InitProvider

SpecHex == {<<"0", "x", "1", "a">>, <<"0", "x">>}
SpecOutcomes ==
    {[ok |-> TRUE, value |-> r] :
        r \in {Arr(a) : a \in AccountLists} \cup {Str(h) : h \in SpecHex} \cup {Null}}
      \cup {[ok |-> FALSE, value |-> Err("boom")]}

Next ==
    \/ \E m \in Methods, p \in ParamChoices : Request(m, p)
    \/ Enable
    \/ \E s \in 1..MaxCalls, o \in SpecOutcomes \cup {Settled} : Resolve(s, o)

Spec == Init /\ [][Next]_vars

\* The event-emitter surface alone, which the two classes share line by line.
EmitterEvents == {"disconnect", ""}
EmitterListeners == {"A", "R", "T"}
EmitArgs == {<<>>, <<Arr(<<>>)>>}

InitEmitter ==
    /\ \/ /\ variant = "client"
          /\ clientChain = NoChain
          /\ clientAccount = NoAccount
          /\ customHandlers = {}
       \/ InitPortal
    /\ InitProvider

NextEmitter ==
    \/ \E ev \in EmitterEvents, n \in EmitterListeners : On(ev, n)
    \/ \E ev \in EmitterEvents, n \in EmitterListeners : AddListener(ev, n)
    \/ \E ev \in EmitterEvents, n \in EmitterListeners : Off(ev, n)
    \/ \E ev \in EmitterEvents, n \in EmitterListeners : RemoveListener(ev, n)
    \/ \E ev \in EmitterEvents, n \in EmitterListeners : Once(ev, n)
    \/ \E ev \in EmitterEvents, a \in EmitArgs : Emit(ev, a)
    \/ \E o \in {Undefined} \cup {OptEvent(ev) : ev \in EmitterEvents} :
          RemoveAllListeners(o)

SpecEmitter == InitEmitter /\ [][NextEmitter]_vars

\* Deliveries in which listeners register and unregister listeners.
DeliveryEvents == {"disconnect", "connect"}
DeliveryListeners == {"A", "N", "D"}

NextDelivery ==
    \/ \E ev \in DeliveryEvents, n \in DeliveryListeners : On(ev, n)
    \/ \E ev \in DeliveryEvents, n \in DeliveryListeners : Off(ev, n)
    \/ \E ev \in DeliveryEvents, n \in DeliveryListeners : Once(ev, n)
    \/ \E ev \in DeliveryEvents : Emit(ev, <<>>)
    \/ \E ev \in DeliveryEvents : RemoveAllListeners(OptEvent(ev))

SpecDelivery == InitEmitter /\ [][NextDelivery]_vars

\* Requests and the event-emitter surface on one provider.
FrameMethods == {"eth_requestAccounts", "eth_accounts", "eth_blockNumber"}
FrameOutcomes == {[ok |-> TRUE, value |-> Arr(<<"0xabc">>)],
                  [ok |-> FALSE, value |-> Err("boom")]}
FrameEvents == {"disconnect", "accountsChanged"}

InitFrame ==
    /\ \/ /\ variant = "client"
          /\ clientChain = Chain(26)
          /\ clientAccount = Account("0xabc")
          /\ customHandlers = {}
       \/ InitPortal
    /\ InitProvider

NextFrame ==
    \/ InFlight = 0 /\ \E m \in FrameMethods : Request(m, Undefined)
    \/ InFlight = 0 /\ Enable
    \/ \E s \in 1..MaxCalls, o \in FrameOutcomes \cup {Settled} : Resolve(s, o)
    \/ \E ev \in FrameEvents : On(ev, "A")
    \/ AddListener("disconnect", "A")
    \/ Off("accountsChanged", "A")
    \/ RemoveListener("disconnect", "A")
    \/ Once("disconnect", "A")
    \/ Emit("disconnect", <<>>)
    \/ Emit("accountsChanged", <<Arr(<<>>)>>)
    \/ RemoveAllListeners(Undefined)
    \/ CallListenerCount(Undefined)
    \/ CallListeners("accountsChanged")
    \/ CallIsConnected

SpecFrame == InitFrame /\ [][NextFrame]_vars

\* The push events of InpageProvider, with listeners, between requests.
PushMethods == {"eth_requestAccounts", "eth_chainId"}
PushOutcomes ==
    {[ok |-> TRUE, value |-> r] : r \in {Arr(<<>>), Arr(<<"0xabc">>), Str(<<"0", "x", "1", "a">>)}}
      \cup {[ok |-> FALSE, value |-> Err("boom")]}
PushAccounts == {<<>>, <<"0xdef", "0xabc">>}
PushHex == {<<"F", "f">>, <<"0", "x">>}

InitPush == InitPortal /\ InitProvider

NextPush ==
    \/ InFlight = 0 /\ \E m \in PushMethods : Request(m, Undefined)
    \/ \E s \in 1..MaxCalls, o \in PushOutcomes : Resolve(s, o)
    \/ \E a \in PushAccounts : PushAccountsChanged(a)
    \/ \E h \in PushHex : PushChainChanged(h)
    \/ PushDisconnect
    \/ PushConnect(ConnectInfo)
    \/ \E ev \in {"accountsChanged", "disconnect"}, n \in {"A", "T"} : On(ev, n)

SpecPush == InitPush /\ [][NextPush]_vars

\* The same steps on either provider (no push reaches the client-backed one).
InitState ==
    /\ \/ /\ variant = "client"
          /\ clientChain = Chain(26)
          /\ clientAccount = Account("0xabc")
          /\ customHandlers \in {{}, {"eth_requestAccounts"}}
       \/ InitPortal
    /\ InitProvider

SpecState == InitState /\ [][NextPush]_vars

\* The legacy surface: send and sendAsync.
LegacyMethods == {"eth_chainId", "eth_blockNumber"}
LegacyOutcomes ==
    {[ok |-> TRUE, value |-> Str(<<"0", "x", "1", "a">>)],
     [ok |-> FALSE, value |-> Err("boom")], [ok |-> FALSE, value |-> Null]}

InitLegacy ==
    /\ \/ /\ variant = "client"
          /\ clientChain = Chain(26)
          /\ clientAccount = Account("0xabc")
          /\ customHandlers \in {{}, {"eth_chainId"}}
       \/ InitPortal
    /\ InitProvider

NextLegacy ==
    \/ InFlight = 0 /\ \E m \in LegacyMethods, p \in ParamChoices, i \in PayloadIds,
                          k \in CallbackKinds : SendAsync(m, p, i, k)
    \/ InFlight = 0 /\ \E f \in {"method", "callback", "payload"}, m \in LegacyMethods,
                          p \in ParamChoices, i \in PayloadIds, k \in CallbackKinds :
                          Send(f, m, p, i, k)
    \/ \E s \in 1..MaxCalls, o \in LegacyOutcomes \cup {Settled} : Resolve(s, o)

SpecLegacy == InitLegacy /\ [][NextLegacy]_vars

\* ------------------------------------------------------------------ claims
\* How many times the listener was invoked in an invocation log.
RECURSIVE Count(_, _)
Count(log, name) ==
    IF log = <<>> THEN 0
    ELSE (IF Head(log).name = name THEN 1 ELSE 0) + Count(Tail(log), name)

\* A request for eth_requestAccounts has just resolved with a non-empty array.
AccountsResolved ==
    /\ last.op = "resolve"
    /\ last.method = "eth_requestAccounts"
    /\ last.ok
    /\ IsArray(last.value)
    /\ Len(last.value.v) > 0

\* C1, as stated: in every configuration, custom handlers included, once
\* request({method: 'eth_requestAccounts'}) has resolved with a non-empty
\* array, selectedAddress is its first element and isConnected() is true.
C1_AllConfigurations ==
    AccountsResolved => selectedAddress = last.value.v[1] /\ IsConnected

\* C1, amended: the same, for the portal-backed provider and for the
\* client-backed provider that has no custom handler for eth_requestAccounts.
C1_NoCustomHandler ==
    AccountsResolved /\ last.route # "custom"
        => selectedAddress = last.value.v[1] /\ IsConnected

C1_Witness ==
    /\ AccountsResolved
    /\ last.route = "portal"
    /\ last.value = Arr(<<"0xdef", "0xabc">>)
    /\ selectedAddress = "0xdef"

\* What a resolved request for a method with a custom handler did.
C2_CustomDispatch ==
    (last.op = "resolve" /\ variant = "client" /\ last.method \in customHandlers)
        => /\ last.route = "custom"
           /\ Len(last.handlerCalls) = 1
           /\ last.handlerCalls[1].method = last.method
           /\ last.handlerCalls[1].arg =
                  (IF last.params = Undefined THEN Arr(<<>>) ELSE last.params)
           /\ last.collabCalls = <<>>
           /\ last.value = last.source

\* The call of such a request and its resolution leave the provider state.
C2_NoStateUpdate ==
    (last'.op \in {"call", "resolve"} /\ variant = "client"
        /\ last'.method \in customHandlers)
        => UNCHANGED provider

\* C2: in the client-backed provider a request for a method with a custom
\* handler invokes that handler exactly once, with params ([] when params is
\* omitted), settles as the handler does, calls no collaborator, and neither
\* the call nor its resolution changes the provider state.
C2_CustomHandlerFirst == []C2_CustomDispatch /\ [][C2_NoStateUpdate]_vars

C2_Witness ==
    /\ last.op = "resolve"
    /\ variant = "client"
    /\ last.method = "eth_requestAccounts"
    /\ last.route = "custom"
    /\ last.value = Arr(<<"0xabc">>)
    /\ clientAccount.has
    /\ selectedAddress = "undefined"
    /\ ~IsConnected

\* C3, as stated: a disconnect push leaves selectedAddress unset and
\* isConnected() false and makes exactly two emissions, accountsChanged with
\* the one argument [] and then disconnect with no arguments.
C3_DisconnectPush ==
    (last.op = "push" /\ last.ev = "disconnect")
        => /\ selectedAddress = "undefined"
           /\ ~IsConnected
           /\ last.emits = <<[ev |-> "accountsChanged", args |-> <<Arr(<<>>)>>],
                             [ev |-> "disconnect", args |-> <<>>]>>

\* C4, as stated: the promise of sendAsync never rejects, and a failure of the
\* request reaches the caller through the callback.
C4_SendAsyncNeverRejects ==
    (last.op = "resolve" /\ last.cbKind # "")
        => /\ last.promise = "fulfilled"
           /\ ~last.ok => /\ Len(last.cb) = 1
                          /\ last.cb[1].error = last.value
                          /\ "error" \in last.cb[1].response.fields

\* C5: sendAsync first calls callback(null, {id, jsonrpc: '2.0', result}) when
\* the request resolves, and callback(e, {id, jsonrpc: '2.0', error: {code:
\* -32000, message: e.message}}) when it rejects with an error e, the id being
\* payload.id when present (0 included) and 1 otherwise.
C5_SendAsyncResponse ==
    (last.op = "resolve" /\ last.cbKind # "")
        => LET id == IF last.payloadId.has THEN last.payloadId.n ELSE 1
           IN  /\ last.ok =>
                   /\ Len(last.cb) >= 1
                   /\ last.cb[1].error = Null
                   /\ last.cb[1].response.fields = {"id", "jsonrpc", "result"}
                   /\ last.cb[1].response.id = id
                   /\ last.cb[1].response.jsonrpc = "2.0"
                   /\ last.cb[1].response.result = last.value
               /\ (~last.ok /\ last.value.t = "err") =>
                   /\ Len(last.cb) = 1
                   /\ last.cb[1].error = last.value
                   /\ last.cb[1].response.fields = {"id", "jsonrpc", "error"}
                   /\ last.cb[1].response.id = id
                   /\ last.cb[1].response.jsonrpc = "2.0"
                   /\ last.cb[1].response.error.code = -32000
                   /\ last.cb[1].response.error.message = Str(last.value.v)

C5_Witness ==
    /\ last.op = "resolve"
    /\ last.api = "sendAsync"
    /\ last.payloadId = [has |-> TRUE, n |-> 0]
    /\ ~last.ok
    /\ Len(last.cb) = 1
    /\ last.cb[1].response.id = 0
    /\ last.cb[1].response.error.message = Str(<<"boom">>)

\* The step is a caller's emit(ev), found with the once-wrapper of the
\* listener as the only listener of ev.
EmitToSoleOnce(ev, name) ==
    /\ nEmits' = nEmits + 1
    /\ last'.op = "emit"
    /\ last'.ev = ev
    /\ Len(_listeners[ev]) = 1
    /\ _listeners[ev][1].name = name
    /\ _listeners[ev][1].w > 0

\* C6, as stated: when the only listener of an event was registered with
\* once, an emit of the event invokes it exactly once and leaves
\* listenerCount(event) at 0, so that later emits invoke nothing.
C6_OnceInvokedOnce ==
    [][\A ev \in Events, name \in ListenerNames :
          EmitToSoleOnce(ev, name)
              => /\ Count(last'.log, name) = 1
                 /\ ListenerCount(_listeners', OptEvent(ev)) = 0]_vars

\* The listener is registered once in the whole registry, by once.
OnlyOnceRegistered(name) ==
    /\ Cardinality({ev \in Events : \E i \in 1..Len(_listeners[ev]) :
                                      _listeners[ev][i].name = name}) = 1
    /\ \A ev \in Events :
          Cardinality({i \in 1..Len(_listeners[ev]) : _listeners[ev][i].name = name}) <= 1
    /\ \A ev \in Events : \A i \in 1..Len(_listeners[ev]) :
          _listeners[ev][i].name = name => _listeners[ev][i].w > 0

\* C7, as stated: a listener registered with once is unregistered before a
\* reentrant emission can reach it, so one emit, with every emit nested in
\* it, invokes the listener at most once.
C7_OnceNotReentered ==
    [][\A name \in ListenerNames :
          (nEmits' = nEmits + 1 /\ OnlyOnceRegistered(name))
              => calls'[name] <= calls[name] + 1]_vars

\* The step of removeAllListeners(event?).
C8_RemoveAllStep ==
    last'.op = "removeAllListeners"
        => IF last'.optEvent = Undefined
           THEN /\ \A e \in Events : _listeners'[e] = <<>>
                /\ ListenerCount(_listeners', Undefined) = 0
           ELSE /\ _listeners'[last'.optEvent.v] = <<>>
                /\ \A e \in Events \ {last'.optEvent.v} : _listeners'[e] = _listeners[e]

\* An emit that follows removeAllListeners().
C8_EmitAfterRemoveAll ==
    (last.op = "removeAllListeners" /\ last.optEvent = Undefined /\ last'.op = "emit")
        => last'.log = <<>>

\* C8, as stated: removeAllListeners() leaves no listener on any event, so
\* listenerCount() is 0 and a later emit invokes nothing;
\* removeAllListeners(event) leaves the event without listeners and the
\* listeners of every other event as they were.
C8_RemoveAllListeners == [][C8_RemoveAllStep /\ C8_EmitAfterRemoveAll]_vars

\* What the five standard methods resolve with.
C9_Results ==
    (last.op = "resolve" /\ variant = "client" /\ last.method \in StandardMethods
        /\ last.method \notin customHandlers)
        => /\ last.collabCalls = <<>>
           /\ last.ok
           /\ last.method = "eth_chainId" =>
                  last.value = IF clientChain.has
                               THEN Str(<<"0", "x">> \o RadixDigits(clientChain.id, 16))
                               ELSE Str(<<"0", "x", "1">>)
           /\ last.method = "net_version" =>
                  last.value = IF clientChain.has
                               THEN Str(RadixDigits(clientChain.id, 10))
                               ELSE Str(<<"1">>)
           /\ last.method \in {"eth_accounts", "eth_requestAccounts"} =>
                  last.value = IF clientAccount.has
                               THEN Arr(<<clientAccount.address>>) ELSE Arr(<<>>)
           /\ last.method = "eth_coinbase" =>
                  last.value = IF clientAccount.has
                               THEN AddrStr(clientAccount.address) ELSE Null

\* eth_requestAccounts without an account.
C9_NoAccountFrame ==
    (last'.op \in {"call", "resolve"} /\ variant = "client"
        /\ last'.method = "eth_requestAccounts"
        /\ last'.method \notin customHandlers /\ ~clientAccount.has)
        => UNCHANGED <<connected, _isConnected, selectedAddress>>

\* C9, as stated: without a custom handler the client-backed provider answers
\* the five standard methods itself, from the collaborator's chain and
\* account: eth_chainId with 0x and the lowercase hex of the chain id (0
\* included), 0x1 when unknown; net_version with its decimal string, 1 when
\* unknown; eth_accounts with [a] or []; eth_coinbase with a or null;
\* eth_requestAccounts with [a] or [], changing nothing when there is no
\* account. None of them calls the collaborator.
C9_LocalDispatch == []C9_Results /\ [][C9_NoAccountFrame]_vars

\* C10, as stated: in both variants, once request({method: 'eth_chainId'})
\* has obtained a string h, chainId is h and networkVersion is h parsed as
\* hexadecimal and written in decimal.
C10_ChainIdCached ==
    (last.op = "resolve" /\ last.method = "eth_chainId" /\ last.ok
        /\ IsString(last.value))
        => /\ chainId = last.value
           /\ networkVersion = HexToDecimal(last.value.v)

\* A request, or an enable, whose custom handler or collaborator call
\* rejected.
Rejected ==
    /\ last.op = "resolve"
    /\ last.api \in {"request", "enable"}
    /\ ~last.ok

\* What such a call did and how its promise settled.
C11_RejectedWith ==
    Rejected
        => /\ last.promise = "rejected"
           /\ last.reason = last.source
           /\ Len(last.handlerCalls) + Len(last.collabCalls) = 1
           /\ last.cb = <<>>

\* Neither the call of a request that goes to a custom handler or to the
\* collaborator, nor the step in which it rejects, changes the provider state.
C11_NoStateChange ==
    /\ (last'.op = "call" /\ last'.route \in {"custom", "forward", "portal"})
           => UNCHANGED provider
    /\ (last'.op = "resolve" /\ ~last'.ok) => UNCHANGED provider

\* C11: when a custom handler or the forwarded collaborator call rejects with
\* e, request() and enable() reject with exactly e, the handler or the
\* collaborator was called once, and neither the call nor its rejection
\* changes connected, isConnected(), chainId, networkVersion, selectedAddress.
C11_RejectionPropagates == []C11_RejectedWith /\ [][C11_NoStateChange]_vars

C11_Witness ==
    /\ Rejected
    /\ last.api = "enable"
    /\ last.route = "portal"
    /\ last.reason = Err("boom")
    /\ selectedAddress = "0xdef"
    /\ IsConnected

\* C12: every request of the portal-backed provider, whatever the method,
\* makes one portal call on channel eth_request with the caller's method and
\* params and resolves with the reply; in the client-backed provider a
\* request for a method without custom handler that is not one of the five
\* standard methods makes one call of client.request with the method and
\* params (the default [] when the caller gave none) and resolves with its
\* result. No handler is called on either path.
C12_Forwarded ==
    (last.op = "resolve" /\ last.api \in {"request", "enable"})
        => /\ variant = "portal" =>
                  /\ last.route = "portal"
                  /\ last.collabCalls =
                         <<CollabCall("eth_request", last.method, last.params)>>
           /\ (variant = "client" /\ last.method \notin customHandlers
                 /\ last.method \notin StandardMethods) =>
                  /\ last.route = "forward"
                  /\ last.collabCalls =
                         <<CollabCall("", last.method,
                                      IF last.params = Undefined THEN Arr(<<>>)
                                      ELSE last.params)>>
           /\ (last.route \in {"portal", "forward"} /\ last.ok) =>
                  /\ last.handlerCalls = <<>>
                  /\ last.promise = "fulfilled"
                  /\ last.result = last.source

C12_Witness ==
    /\ last.op = "resolve"
    /\ last.api = "request"
    /\ variant = "portal"
    /\ last.method = "eth_chainId"
    /\ last.params = Arr(<<"p">>)
    /\ last.collabCalls = <<CollabCall("eth_request", "eth_chainId", Arr(<<"p">>))>>
    /\ last.result = Arr(<<"0xabc">>)

\* C13: an accountsChanged(accounts) push of the portal sets selectedAddress
\* to the first account (unset when there is none) and isConnected() to
\* whether there is one, emits accountsChanged once with the whole array, and
\* every listener invoked in that delivery reads the updated selectedAddress
\* and isConnected().
C13_AccountsChangedPush ==
    (last.op = "push" /\ last.ev = "accountsChanged")
        => LET accounts == last.args[1].v
           IN  /\ selectedAddress = First(accounts)
               /\ IsConnected = (Len(accounts) > 0)
               /\ last.emits = <<[ev |-> "accountsChanged", args |-> <<Arr(accounts)>>]>>
               /\ \A i \in 1..Len(last.log) :
                      /\ last.log[i].ev = "accountsChanged"
                      /\ last.log[i].args = <<Arr(accounts)>>
                      /\ last.log[i].view.selectedAddress = First(accounts)
                      /\ last.log[i].view.isConnected = (Len(accounts) > 0)

C13_Witness ==
    /\ last.op = "push"
    /\ last.ev = "accountsChanged"
    /\ last.args = <<Arr(<<"0xdef", "0xabc">>)>>
    /\ Len(last.log) = 1
    /\ last.log[1].name = "A"
    /\ last.log[1].view.selectedAddress = "0xdef"
    /\ last.log[1].view.isConnected
    /\ ~connected

\* How many callbacks of the listener an event has registered.
Registered(reg, ev, name) ==
    Cardinality({i \in 1..Len(reg[ev]) : reg[ev][i].name = name})

\* C14, as stated: an emit in which no listener throws invokes every callback
\* that was registered for the event when emit was called exactly once, and
\* no other, whatever the listeners register or unregister for the event
\* during the delivery.
C14_EmitSnapshot ==
    [][(last'.op = "emit" /\ nEmits' = nEmits + 1 /\ ~last'.thrown
          /\ Len(last'.emits) = 1)
          => \A name \in ListenerNames :
                Count(last'.log, name) = Registered(_listeners, last'.ev, name)]_vars

\* The portal has just replied to a request for the method with a value that
\* request() stores.
Stored(l, method) ==
    /\ l.op = "resolve"
    /\ l.route = "portal"
    /\ l.ok
    /\ l.method = method
    /\ IF method = "eth_chainId" THEN IsString(l.value) ELSE IsArray(l.value)

\* After every reply that is stored, the fields hold that reply's values, and
\* chainId and networkVersion are never from two different replies.
C15_ReplyStored ==
    variant = "portal"
        => /\ Stored(last, "eth_chainId")
                  => /\ chainId = last.value
                     /\ networkVersion = HexToDecimal(last.value.v)
           /\ Stored(last, "eth_requestAccounts")
                  => /\ selectedAddress = First(last.value.v)
                     /\ IsConnected /\ connected
           /\ chainId # Undefined => networkVersion = HexToDecimal(chainId.v)

\* Of two replies stored one after the other, the second one's values stay,
\* whichever of the two calls was made first.
C15_SecondReplyStays ==
    \A method \in {"eth_chainId", "eth_requestAccounts"} :
        (Stored(last, method) /\ Stored(last', method) /\ last'.slot # last.slot)
            => IF method = "eth_chainId"
               THEN chainId' = last'.value
                    /\ networkVersion' = HexToDecimal(last'.value.v)
               ELSE selectedAddress' = First(last'.value.v)

\* C15: in the portal-backed provider, when several requests are in flight
\* and their replies set the same field, the field holds the value of the
\* reply that arrived last, in whatever order the calls were made, and each
\* reply's update is one step (chainId and networkVersion always belong to
\* the same reply).
C15_LastResolvedWins == []C15_ReplyStored /\ [][C15_SecondReplyStays]_vars

\* The call made first was answered last, and its reply is the one stored.
C15_Witness ==
    /\ Stored(last, "eth_chainId")
    /\ last.slot = 1
    /\ nCalls = 2
    /\ InFlight = 0
    /\ last.value = Str(<<"0", "x">>)
    /\ chainId = Str(<<"0", "x">>)
    /\ networkVersion = <<"N", "a", "N">>

\* C16: when a listener throws during the delivery of a push event, it is the
\* last listener invoked (no later listener of that emit runs, and after a
\* throwing accountsChanged listener the disconnect push makes no disconnect
\* emission), the exception reaches the portal's call of the subscription
\* handler, and the state update the handler made before emitting is kept.
C16_ListenerThrows ==
    last.op = "push"
        => /\ \A i \in 1..Len(last.log) :
                  last.log[i].name = "T" => i = Len(last.log) /\ last.thrown
           /\ last.thrown
                  => /\ last.log # <<>>
                     /\ last.log[Len(last.log)].name = "T"
                     /\ last.log[Len(last.log)].ev = last.emits[Len(last.emits)].ev
                     /\ last.log[Len(last.log)].ev = "accountsChanged"
                            => Len(last.emits) = 1
           /\ last.ev = "accountsChanged"
                  => /\ selectedAddress = First(last.args[1].v)
                     /\ IsConnected = (Len(last.args[1].v) > 0)
           /\ last.ev = "chainChanged"
                  => /\ chainId = last.args[1]
                     /\ networkVersion = HexToDecimal(last.args[1].v)
           /\ last.ev = "disconnect"
                  => selectedAddress = "undefined" /\ ~IsConnected
           /\ last.ev = "connect" => IsConnected

\* A disconnect push whose first accountsChanged listener threw: the second
\* listener and the disconnect emission did not happen, the state is cleared.
C16_Witness ==
    /\ last.op = "push"
    /\ last.ev = "disconnect"
    /\ last.thrown
    /\ Len(_listeners["accountsChanged"]) = 2
    /\ _listeners["accountsChanged"][1].name = "T"
    /\ Len(last.log) = 1
    /\ Len(last.emits) = 1
    /\ connected
    /\ ~IsConnected
    /\ selectedAddress = "undefined"

\* Whenever chainId is set, networkVersion is derived from it: 26 for 0x1a,
\* 255 for Ff, and NaN for 0x, which has no hexadecimal digits.
C17_Derived ==
    (variant = "portal" /\ chainId # Undefined)
        => /\ networkVersion = HexToDecimal(chainId.v)
           /\ chainId = Str(<<"0", "x", "1", "a">>) => networkVersion = <<"2", "6">>
           /\ chainId = Str(<<"F", "f">>) => networkVersion = <<"2", "5", "5">>
           /\ chainId = Str(<<"0", "x">>) => networkVersion = <<"N", "a", "N">>

\* The steps that change chainId, and what a chainChanged push does.
C17_ChainIdSteps ==
    /\ chainId' # chainId
           => /\ \/ last'.op = "push" /\ last'.ev = "chainChanged"
                 \/ last'.op = "resolve" /\ last'.method = "eth_chainId"
              /\ networkVersion' = HexToDecimal(chainId'.v)
    /\ networkVersion' # networkVersion => chainId' # Undefined
    /\ (last'.op = "push" /\ last'.ev = "chainChanged")
           => /\ chainId' = last'.args[1]
              /\ last'.emits = <<[ev |-> "chainChanged", args |-> last'.args]>>
              /\ UNCHANGED <<selectedAddress, _isConnected, connected>>

\* C17: in the portal-backed provider networkVersion is, whenever chainId is
\* set, chainId parsed as hexadecimal and written in decimal; chainId changes
\* only in a chainChanged push or an eth_chainId reply, together with
\* networkVersion; a chainChanged push emits chainChanged once with the value
\* it got and leaves selectedAddress and the connection flag alone.
C17_NetworkVersionDerived == []C17_Derived /\ [][C17_ChainIdSteps]_vars

C17_Witness ==
    /\ last.op = "push"
    /\ last.ev = "chainChanged"
    /\ chainId = Str(<<"F", "f">>)
    /\ networkVersion = <<"2", "5", "5">>
    /\ selectedAddress = "0xabc"
    /\ IsConnected

\* The operations that are no request and no push.
OtherOps == {"on", "off", "once", "removeAllListeners", "emit",
             "listenerCount", "listeners", "isConnected"}

\* C18: connected, isConnected(), chainId, networkVersion and selectedAddress
\* change only in a request for eth_requestAccounts (enable included) or
\* eth_chainId or in a push handler: a request for any other method, from its
\* call to its settling, and every on, addListener, off, removeListener,
\* once, removeAllListeners, listenerCount, listeners, isConnected and
\* caller's emit leave the five as they are.
C18_Frame ==
    [][/\ provider' # provider
             => \/ last'.op = "push"
                \/ /\ last'.op \in {"call", "resolve"}
                   /\ last'.method \in {"eth_requestAccounts", "eth_chainId"}
       /\ last'.op \in OtherOps => UNCHANGED provider
       /\ (last'.op \in {"call", "resolve"}
              /\ last'.method \notin {"eth_requestAccounts", "eth_chainId"})
             => UNCHANGED provider]_vars

\* A caller's emit of accountsChanged on a connected provider.
C18_Witness ==
    /\ last.op = "emit"
    /\ last.ev = "accountsChanged"
    /\ last.args = <<Arr(<<>>)>>
    /\ Len(last.log) = 1
    /\ selectedAddress = "0xabc"
    /\ IsConnected
    /\ connected

\* C19, as stated: in every reachable state of either provider the property
\* connected equals what isConnected() returns.
C19_ConnectedAgrees == connected = IsConnected

\* C20: in every reachable state of either provider, when selectedAddress is
\* set, isConnected() returns true.
C20_AddressImpliesConnected == selectedAddress # "undefined" => IsConnected

\* An address stored by a reply that arrived after two pushes.
C20_Witness ==
    /\ last.op = "resolve"
    /\ last.method = "eth_requestAccounts"
    /\ nPushes = 2
    /\ selectedAddress = "0xabc"
    /\ IsConnected

\* C21, as stated: every sendAsync (and send with a callback) invokes the
\* callback exactly once, whatever the outcome of the request and whether or
\* not the callback throws.
C21_CallbackOnce ==
    (last.op = "resolve" /\ last.cbKind # "") => Len(last.cb) = 1

\* After off(event, l) the event has no callback of l.
C22_OffRemoved ==
    last.op = "off" => Registered(_listeners, last.ev, last.name) = 0

\* The emit of the event that follows off(event, l) invokes l no time.
C22_EmitAfterOff ==
    (last.op = "off" /\ last'.op = "emit" /\ nEmits' = nEmits + 1
        /\ last'.ev = last.ev)
        => Count(last'.log, last.name) = 0

\* C22, as stated: once off(event, l) or removeListener(event, l) has
\* returned, the event has no callback of l left, whether l was registered
\* with on, addListener or once, and the next emit of the event does not
\* invoke l.
C22_OffUnregisters ==
    []C22_OffRemoved /\ [][C22_EmitAfterOff]_vars

====
